---- MODULE Spec2Model ----
(***************************************************************************)
(* A model of the content-type managers of the Strapi client               *)
(* (AbstractContentTypeManager, CollectionTypeManager, SingleTypeManager), *)
(* of the payload wrapping rule of content-types/constants.ts, of          *)
(* URLHelper.appendQueryParams, and of FilesManager with the error mapper  *)
(* of files/errors.ts and the validator of file query parameters.          *)
(*                                                                         *)
(* JavaScript strings are TLA+ strings.  Every other JavaScript value is a *)
(* record of one fixed shape, so that values of different JavaScript types *)
(* can be compared and collected in one set.  An object is the sequence of *)
(* its own enumerable entries in the order Object.entries yields them.     *)
(***************************************************************************)
EXTENDS Integers, Sequences, FiniteSets, TLC

(***************************************************************************)
(* JavaScript values                                                       *)
(***************************************************************************)
JSValue(type, str, num, bool, ks, vs) ==
    [t |-> type, s |-> str, n |-> num, b |-> bool, keys |-> ks, kids |-> vs]

Undefined == JSValue("undefined", "", 0, FALSE, <<>>, <<>>)
Null      == JSValue("null", "", 0, FALSE, <<>>, <<>>)
Str(s)    == JSValue("string", s, 0, FALSE, <<>>, <<>>)
Num(n)    == JSValue("number", "", n, FALSE, <<>>, <<>>)
Bool(b)   == JSValue("boolean", "", 0, b, <<>>, <<>>)
\* an array with the elements vs
Arr(vs)   == JSValue("array", "", 0, FALSE, <<>>, vs)
\* an object whose i-th entry is ks[i]: vs[i]
Obj(ks, vs) == JSValue("object", "", 0, FALSE, ks, vs)

IsArray(v) == v.t = "array"

\* typeof value === 'object' && value !== null, for a value that is no array
IsNonNullObject(v) == v.t \in {"object", "array"}

\* ToBoolean: the test of `if (value)`
Truthy(v) ==
    CASE v.t \in {"undefined", "null"} -> FALSE
      [] v.t = "string"  -> v.s # ""
      [] v.t = "number"  -> v.n # 0
      [] v.t = "boolean" -> v.b
      [] OTHER           -> TRUE

\* a ?? b
Coalesce(a, b) == IF a.t \in {"undefined", "null"} THEN b ELSE a

RECURSIVE Join(_, _)
\* Array.prototype.join on a sequence of strings
Join(strs, sep) ==
    IF strs = <<>> THEN ""
    ELSE IF Len(strs) = 1 THEN strs[1]
    ELSE strs[1] \o sep \o Join(Tail(strs), sep)

RECURSIVE String(_)
\* String(value)
String(v) ==
    CASE v.t = "undefined" -> "undefined"
      [] v.t = "null"      -> "null"
      [] v.t = "string"    -> v.s
      [] v.t = "number"    -> ToString(v.n)
      [] v.t = "boolean"   -> IF v.b THEN "true" ELSE "false"
      [] v.t = "array"     ->
            Join([i \in 1..Len(v.kids) |->
                     IF v.kids[i].t \in {"undefined", "null"} THEN ""
                     ELSE String(v.kids[i])], ",")
      [] OTHER             -> "[object Object]"

RECURSIVE MapChars(_, _)
\* the concatenation of f[c] over the characters c of s, left to right
MapChars(f, s) ==
    IF s = "" THEN ""
    ELSE (IF Head(s) \in DOMAIN f THEN f[Head(s)] ELSE Head(s)) \o MapChars(f, Tail(s))

\* the characters JSON.stringify escapes, among those of the strings used here
JSONEscapes == ("\"" :> "\\\"") @@ ("\\" :> "\\\\")

\* JSON.stringify of a string: quoted, with quote and backslash escaped
JSONQuote(s) == "\"" \o MapChars(JSONEscapes, s) \o "\""

IsDefined(v) == v.t # "undefined"

RECURSIVE DefinedIndices(_, _)
\* the indices j >= i of the sequence q with q[j] not undefined, ascending
DefinedIndices(q, i) ==
    IF i > Len(q) THEN <<>>
    ELSE (IF IsDefined(q[i]) THEN <<i>> ELSE <<>>) \o DefinedIndices(q, i + 1)

RECURSIVE JSONStringify(_)
\* JSON.stringify(value) for a value that is not undefined: an object drops
\* its entries whose value is undefined, an array writes them as null
JSONStringify(v) ==
    CASE v.t = "string"  -> JSONQuote(v.s)
      [] v.t = "number"  -> ToString(v.n)
      [] v.t = "boolean" -> IF v.b THEN "true" ELSE "false"
      [] v.t = "array"   ->
            "[" \o Join([i \in 1..Len(v.kids) |->
                            IF IsDefined(v.kids[i]) THEN JSONStringify(v.kids[i])
                            ELSE "null"], ",") \o "]"
      [] v.t = "object"  ->
            LET kept == DefinedIndices(v.kids, 1)
            IN  "{" \o Join([j \in 1..Len(kept) |->
                               JSONQuote(v.keys[kept[j]]) \o ":"
                                   \o JSONStringify(v.kids[kept[j]])], ",") \o "}"
      [] OTHER           -> "null"

(***************************************************************************)
(* Property access                                                         *)
(***************************************************************************)
\* value[key] for an object: the value of its entry key, undefined without one
Get(v, key) ==
    IF \E i \in 1..Len(v.keys) : v.keys[i] = key
    THEN v.kids[CHOOSE i \in 1..Len(v.keys) : v.keys[i] = key]
    ELSE Undefined

\* value?.key
OptGet(v, key) == IF v.t \in {"undefined", "null"} THEN Undefined ELSE Get(v, key)

\* Array.prototype.includes on a sequence of strings, for a searched value
Includes(strs, v) == v.t = "string" /\ \E i \in 1..Len(strs) : strs[i] = v.s

(***************************************************************************)
(* content-types/constants.ts                                              *)
(***************************************************************************)
pluginsThatDoNotWrapDataAttribute == <<"users-permissions">>

\* a registry is the sequence of its entries, key first
WELL_KNOWN_COLLECTIONS ==
    << [key |-> "users",
        plugin |-> [name |-> "users-permissions", prefix |-> ""],
        wrapsData |-> FALSE] >>

WELL_KNOWN_SINGLES == <<>>

\* { ...a, ...b }: the keys of a in their order, with the value b gives them
\* when b has the key too, then the keys only b has
ObjectSpread(a, b) ==
    LET InA(k) == \E i \in 1..Len(a) : a[i].key = k
        Override(e) ==
            IF \E j \in 1..Len(b) : b[j].key = e.key
            THEN b[CHOOSE j \in 1..Len(b) : b[j].key = e.key]
            ELSE e
    IN  [i \in 1..Len(a) |-> Override(a[i])] \o SelectSeq(b, LAMBDA e : ~InA(e.key))

\* variant: the registries are never consulted
shouldWrapData_AlwaysWrap(pluginName) == TRUE

\* shouldWrapData(pluginName)
shouldWrapData(pluginName) ==
    IF pluginName = Undefined THEN TRUE
    ELSE LET configs == ObjectSpread(WELL_KNOWN_COLLECTIONS, WELL_KNOWN_SINGLES)
             Matches(config) == pluginName.t = "string" /\ config.plugin.name = pluginName.s
             found == SelectSeq(configs, Matches)
         IN  IF found = <<>> THEN TRUE ELSE found[1].wrapsData

(***************************************************************************)
(* content-types/abstract.ts: the getters of AbstractContentTypeManager,   *)
(* as functions of the manager's options o = [resource, path, plugin]      *)
(***************************************************************************)
_resource(o) == o.resource

_path(o) == o.path

_pluginName(o) == OptGet(o.plugin, "name")

\* variant: an explicit prefix is ignored
_pluginPrefix_NameOnly(o) ==
    IF Truthy(_pluginName(o)) THEN _pluginName(o) ELSE Undefined

\* variant: the prefix is tested for truthiness, so '' falls back to the name
_pluginPrefix_EmptyFallsBack(o) ==
    IF Truthy(OptGet(o.plugin, "prefix")) THEN Get(o.plugin, "prefix")
    ELSE IF Truthy(_pluginName(o)) THEN _pluginName(o)
    ELSE Undefined

_pluginPrefix(o) ==
    IF OptGet(o.plugin, "prefix") # Undefined THEN Get(o.plugin, "prefix")
    ELSE IF Truthy(_pluginName(o)) THEN _pluginName(o)
    ELSE Undefined

\* variant: the plugin prefix is tested before the explicit path
_rootPath_PluginFirst(o) ==
    LET prefix == _pluginPrefix(o)
    IN  IF Truthy(prefix) THEN "/" \o String(prefix) \o "/" \o _resource(o)
        ELSE IF Truthy(_path(o)) THEN String(_path(o))
        ELSE "/" \o _resource(o)

\* variant: an empty resource name gives no segment
_rootPath_EmptyResourceDropped(o) ==
    IF Truthy(_path(o)) THEN String(_path(o))
    ELSE LET prefix == _pluginPrefix(o)
             resource == IF _resource(o) = "" THEN "" ELSE "/" \o _resource(o)
         IN  IF Truthy(prefix) THEN "/" \o String(prefix) \o resource
             ELSE resource

\* variant: the empty string is an explicit path like any other
_rootPath_EmptyPathKept(o) ==
    IF _path(o) # Undefined THEN String(_path(o))
    ELSE LET prefix == _pluginPrefix(o)
         IN  IF Truthy(prefix) THEN "/" \o String(prefix) \o "/" \o _resource(o)
             ELSE "/" \o _resource(o)

_rootPath(o) ==
    IF Truthy(_path(o)) THEN String(_path(o))
    ELSE LET prefix == _pluginPrefix(o)
         IN  IF Truthy(prefix) THEN "/" \o String(prefix) \o "/" \o _resource(o)
             ELSE "/" \o _resource(o)

\* variant: every plugin is sent the raw payload
shouldWrapDataBodyAttribute_NoPluginOnly(o) == _pluginName(o) = Undefined

\* variant: the well-known collections are also looked up by resource name
shouldWrapDataBodyAttribute_ByResourceName(o) ==
    /\ ~Includes(pluginsThatDoNotWrapDataAttribute, Coalesce(_pluginName(o), Str("")))
    /\ \A i \in 1..Len(WELL_KNOWN_COLLECTIONS) :
           WELL_KNOWN_COLLECTIONS[i].key = _resource(o) => WELL_KNOWN_COLLECTIONS[i].wrapsData

\* CollectionTypeManager.shouldWrapDataBodyAttribute
shouldWrapDataBodyAttribute(o) ==
    ~Includes(pluginsThatDoNotWrapDataAttribute, Coalesce(_pluginName(o), Str("")))

(***************************************************************************)
(* URLHelper.appendQueryParams                                             *)
(***************************************************************************)
\* The serializer of URLSearchParams (application/x-www-form-urlencoded):
\* ASCII letters, digits and * - . _ stay, a space becomes +, and every
\* other ASCII character becomes % and its code in two hex digits (the
\* backquote, which no string of the model contains, is left out).
FormUrlencoded ==
    (" " :> "+") @@ ("!" :> "%21") @@ ("\"" :> "%22") @@ ("#" :> "%23") @@
    ("$" :> "%24") @@ ("%" :> "%25") @@ ("&" :> "%26") @@ ("'" :> "%27") @@
    ("(" :> "%28") @@ (")" :> "%29") @@ ("+" :> "%2B") @@ ("," :> "%2C") @@
    ("/" :> "%2F") @@ (":" :> "%3A") @@ (";" :> "%3B") @@ ("<" :> "%3C") @@
    ("=" :> "%3D") @@ (">" :> "%3E") @@ ("?" :> "%3F") @@ ("@" :> "%40") @@
    ("[" :> "%5B") @@ ("\\" :> "%5C") @@ ("]" :> "%5D") @@ ("^" :> "%5E") @@
    ("{" :> "%7B") @@ ("|" :> "%7C") @@ ("}" :> "%7D") @@
    ("~" :> "%7E")

\* variant: square brackets are left as they are
FormEncode_KeepsBrackets(s) ==
    MapChars([c \in DOMAIN FormUrlencoded \ {"[", "]"} |-> FormUrlencoded[c]], s)

\* variant: '&' and '=' are left as they are
FormEncode_KeepsSeparators(s) ==
    MapChars([c \in DOMAIN FormUrlencoded \ {"&", "="} |-> FormUrlencoded[c]], s)

FormEncode(s) == MapChars(FormUrlencoded, s)

\* URLSearchParams.prototype.toString for the list of appended pairs
URLSearchParamsToString(pairs) ==
    Join([i \in 1..Len(pairs) |-> FormEncode(pairs[i][1]) \o "=" \o FormEncode(pairs[i][2])], "&")

RECURSIVE Flatten(_)
\* the concatenation of a sequence of sequences
Flatten(qs) == IF qs = <<>> THEN <<>> ELSE Head(qs) \o Flatten(Tail(qs))

RECURSIVE appendParam_IndexBeforeFilter(_, _)
\* variant: an array's elements keep the index they have in the array
appendParam_IndexBeforeFilter(key, value) ==
    IF IsArray(value)
    THEN Flatten([i \in 1..Len(value.kids) |->
             IF IsDefined(value.kids[i])
             THEN << <<key \o "[" \o ToString(i - 1) \o "]", String(value.kids[i])>> >>
             ELSE <<>>])
    ELSE IF IsNonNullObject(value)
    THEN Flatten([i \in 1..Len(value.keys) |->
             appendParam_IndexBeforeFilter(key \o "[" \o value.keys[i] \o "]", value.kids[i])])
    ELSE IF IsDefined(value) THEN << <<key, String(value)>> >>
    ELSE <<>>

RECURSIVE appendParam(_, _)
\* appendParam(key, value): the pairs it appends to params, in order
appendParam(key, value) ==
    IF IsArray(value)
    THEN LET items == SelectSeq(value.kids, IsDefined)
         IN  [i \in 1..Len(items) |->
                 <<key \o "[" \o ToString(i - 1) \o "]", String(items[i])>>]
    ELSE IF IsNonNullObject(value)
    THEN Flatten([i \in 1..Len(value.keys) |->
             appendParam(key \o "[" \o value.keys[i] \o "]", value.kids[i])])
    ELSE IF IsDefined(value) THEN << <<key, String(value)>> >>
    ELSE <<>>

\* variant: the entries are visited last to first
QueryPairs_LastKeyFirst(queryParams) ==
    Flatten([i \in 1..Len(queryParams.keys) |->
        LET j == Len(queryParams.keys) + 1 - i
        IN  IF queryParams.kids[j] # Undefined
            THEN appendParam(queryParams.keys[j], queryParams.kids[j])
            ELSE <<>>])

\* the pairs in params after the loop over Object.entries(queryParams)
QueryPairs(queryParams) ==
    Flatten([i \in 1..Len(queryParams.keys) |->
        IF queryParams.kids[i] # Undefined
        THEN appendParam(queryParams.keys[i], queryParams.kids[i])
        ELSE <<>>])

\* variant: '?' is appended without testing the query string
appendQueryParams_AlwaysAppends(url, queryParams) ==
    IF ~Truthy(queryParams) THEN url
    ELSE url \o "?" \o URLSearchParamsToString(QueryPairs(queryParams))

\* variant: a URL that has a query string already is continued with '&'
appendQueryParams_JoinsExistingQuery(url, queryParams) ==
    IF ~Truthy(queryParams) THEN url
    ELSE LET queryString == URLSearchParamsToString(QueryPairs(queryParams))
             separator == IF \E i \in 1..Len(url) : SubSeq(url, i, i) = "?"
                          THEN "&" ELSE "?"
         IN  IF queryString # "" THEN url \o separator \o queryString ELSE url

\* URLHelper.appendQueryParams(url, queryParams)
appendQueryParams(url, queryParams) ==
    IF ~Truthy(queryParams) THEN url
    ELSE LET queryString == URLSearchParamsToString(QueryPairs(queryParams))
         IN  IF queryString # "" THEN url \o "?" \o queryString ELSE url

(***************************************************************************)
(* Bounds and input sets                                                   *)
(***************************************************************************)
\* the number of calls the callers issue on the manager
MaxCalls == 1

\* the largest number of values (scalars, arrays, objects) nested in a
\* queryParams object given to URLHelper, the object itself not counted
MaxNodes == 3

\* the number of calls in flight at once on one manager, in the
\* specification of concurrent calls
MaxConcurrent == 2

CallIds == 1..MaxCalls

Resources == {"articles", "users"}

PluginNames == {"users-permissions", "blog", ""}

PluginPrefixes == {"", "custom"}

Paths == {Undefined, Str(""), Str("/custom/endpoint")}

Plugins ==
    {Undefined}
    \cup {Obj(<<"name">>, <<Str(n)>>) : n \in PluginNames}
    \cup {Obj(<<"name", "prefix">>, <<Str(n), Str(x)>>) :
              n \in PluginNames, x \in PluginPrefixes}

Options == [resource : Resources, path : Paths, plugin : Plugins]

NoOptions == [resource |-> "", path |-> Undefined, plugin |-> Undefined]

DocumentIds == {"1"}

Payloads == {Obj(<<"title">>, <<Str("t")>>), Obj(<<"data", "n">>, <<Num(1), Undefined>>)}

CallQueryParams == {Undefined, Obj(<<"locale">>, <<Str("en")>>)}

BaseURLs == {"/articles", "/upload/files?a"}

Scalars == {Undefined, Null, Str("name:asc"), Num(1), Bool(TRUE)}

Keys == {"filters", "$or"}

\* the sequences of n distinct keys
KeySeqs(n) == {ks \in [1..n -> Keys] : \A i, j \in 1..n : ks[i] = ks[j] => i = j}

RECURSIVE Levels(_)
\* for each size m in 1..n: trees, the values made of exactly m nodes, and
\* forests, the non-empty sequences of values made of exactly m nodes in all
Levels(n) ==
    IF n = 0 THEN <<>>
    ELSE LET prev == Levels(n - 1)
             trees ==
                 IF n = 1 THEN Scalars \cup {Arr(<<>>), Obj(<<>>, <<>>)}
                 ELSE {Arr(f) : f \in prev[n - 1].forests}
                      \cup UNION {{Obj(ks, f) : ks \in KeySeqs(Len(f))} :
                                      f \in prev[n - 1].forests}
             forests ==
                 {<<t>> : t \in trees}
                 \cup UNION {{<<t>> \o f : t \in prev[i].trees, f \in prev[n - i].forests} :
                                 i \in 1..(n - 1)}
         IN  Append(prev, [trees |-> trees, forests |-> forests])

\* the queryParams arguments given to URLHelper.appendQueryParams: the
\* objects of at most maxNodes nested values
QueryParamsInputs(maxNodes) ==
    LET levels == Levels(maxNodes)
    IN  {Undefined, Obj(<<>>, <<>>)}
        \cup UNION {UNION {{Obj(ks, f) : ks \in KeySeqs(Len(f))} : f \in levels[n].forests} :
                        n \in 1..maxNodes}

\* the invocations of the exported pure functions
Invocations(maxNodes) ==
    {[fn |-> "appendQueryParams", url |-> u, queryParams |-> q, pluginName |-> Undefined] :
         u \in BaseURLs, q \in QueryParamsInputs(maxNodes)}
    \cup {[fn |-> "shouldWrapData", url |-> "", queryParams |-> Undefined, pluginName |-> n] :
              n \in {Undefined} \cup {Str(x) : x \in PluginNames \cup {"upload"}}}

NoInvocation ==
    [fn |-> "none", url |-> "", queryParams |-> Undefined, pluginName |-> Undefined]

(***************************************************************************)
(* State                                                                   *)
(***************************************************************************)
VARIABLES
    kind,        \* "collection" or "single": the class of the manager
    _options,    \* the manager's _options
    calls,       \* per call of a manager method: where it stands
    requests,    \* the calls made on _httpClient, in order
    clients,     \* the HttpClient instances, each one the list of its response
                 \* error interceptors; the first is the manager's _httpClient
    invocation,  \* the pure function invoked and its arguments
    returned     \* what the invocation returned, undefined before it did

vars == <<kind, _options, calls, requests, clients, invocation, returned>>

\* the response interceptors of an HttpClient nothing was registered on
NoInterceptors == <<>>

\* this._httpClient among the clients
BaseClient == 1

NoArgs == [documentID |-> "", data |-> Undefined, queryParams |-> Undefined]

Args(documentID, data, queryParams) ==
    [documentID |-> documentID, data |-> data, queryParams |-> queryParams]

IdleCall == [pc |-> "idle", op |-> "", args |-> NoArgs, outcome |-> ""]

Request(c, method, url, body, headers) ==
    [call |-> c, method |-> method, url |-> url, body |-> body, headers |-> headers]

ContentTypeJSON == << <<"Content-Type", "application/json">> >>

\* what the promise of the HTTP client rejects with: a status error, or the
\* TypeError of a fetch that could not connect
HttpErrors == {"HTTPError", "TypeError"}

JsonErrors == {"SyntaxError"}

ResponseBodies == {"json"}

(***************************************************************************)
(* The managers' methods.  A call runs up to its first await in one step:  *)
(* it resolves the root path, appends the query string, and calls the HTTP *)
(* client; it then waits for the client's promise, and (except in delete)  *)
(* for the promise of response.json().                                     *)
(***************************************************************************)
\* let url = ...; if (queryParams) { url = URLHelper.appendQueryParams(url, queryParams) }
WithQueryParams(url, queryParams) ==
    IF Truthy(queryParams) THEN appendQueryParams(url, queryParams) ELSE url

\* the body CollectionTypeManager.create and update send
CollectionBody(o, data) ==
    JSONStringify(IF shouldWrapDataBodyAttribute(o) THEN Obj(<<"data">>, <<data>>) ELSE data)

\* the body SingleTypeManager.update sends: the options are not consulted
SingleBody(o, data) == JSONStringify(Obj(<<"data">>, <<data>>))

\* variant: the URL of the first request is kept on the manager and reused
Send_SharedUrl(c, op, args, req) ==
    /\ calls[c].pc = "idle"
    /\ \A d \in 1..(c - 1) : calls[d].pc # "idle"
    /\ requests' = Append(requests,
                          IF requests = <<>> THEN req
                          ELSE [req EXCEPT !.url = requests[1].url])
    /\ calls' = [calls EXCEPT ![c] =
                    [pc |-> "awaitClient", op |-> op, args |-> args, outcome |-> ""]]
    /\ UNCHANGED <<kind, _options, clients, invocation, returned>>

\* variant: the URL requested is kept on the manager as its path
Send_KeepsUrlAsPath(c, op, args, req) ==
    /\ calls[c].pc = "idle"
    /\ \A d \in 1..(c - 1) : calls[d].pc # "idle"
    /\ requests' = Append(requests, req)
    /\ calls' = [calls EXCEPT ![c] =
                    [pc |-> "awaitClient", op |-> op, args |-> args, outcome |-> ""]]
    /\ _options' = [_options EXCEPT !.path = Str(req.url)]
    /\ UNCHANGED <<kind, clients, invocation, returned>>

\* the call c leaves idle for the await of the HTTP client, having sent req;
\* calls are numbered in the order the callers issue them
Send(c, op, args, req) ==
    /\ calls[c].pc = "idle"
    /\ \A d \in 1..(c - 1) : calls[d].pc # "idle"
    /\ requests' = Append(requests, req)
    /\ calls' = [calls EXCEPT ![c] =
                    [pc |-> "awaitClient", op |-> op, args |-> args, outcome |-> ""]]
    /\ UNCHANGED <<kind, _options, clients, invocation, returned>>

CollectionFind(c, queryParams) ==
    /\ kind = "collection"
    /\ Send(c, "find", Args("", Undefined, queryParams),
            Request(c, "GET", WithQueryParams(_rootPath(_options), queryParams),
                    Undefined, <<>>))

\* variant: the query string is appended to the root path, before the id
CollectionFindOne_QueryBeforeId(c, documentID, queryParams) ==
    /\ kind = "collection"
    /\ Send(c, "findOne", Args(documentID, Undefined, queryParams),
            Request(c, "GET",
                    WithQueryParams(_rootPath(_options), queryParams) \o "/" \o documentID,
                    Undefined, <<>>))

CollectionFindOne(c, documentID, queryParams) ==
    /\ kind = "collection"
    /\ Send(c, "findOne", Args(documentID, Undefined, queryParams),
            Request(c, "GET",
                    WithQueryParams(_rootPath(_options) \o "/" \o documentID, queryParams),
                    Undefined, <<>>))

CollectionCreate(c, data, queryParams) ==
    /\ kind = "collection"
    /\ Send(c, "create", Args("", data, queryParams),
            Request(c, "POST", WithQueryParams(_rootPath(_options), queryParams),
                    Str(CollectionBody(_options, data)), ContentTypeJSON))

\* variant: update is sent with the method of create
CollectionUpdate_Post(c, documentID, data, queryParams) ==
    /\ kind = "collection"
    /\ Send(c, "update", Args(documentID, data, queryParams),
            Request(c, "POST",
                    WithQueryParams(_rootPath(_options) \o "/" \o documentID, queryParams),
                    Str(CollectionBody(_options, data)), ContentTypeJSON))

CollectionUpdate(c, documentID, data, queryParams) ==
    /\ kind = "collection"
    /\ Send(c, "update", Args(documentID, data, queryParams),
            Request(c, "PUT",
                    WithQueryParams(_rootPath(_options) \o "/" \o documentID, queryParams),
                    Str(CollectionBody(_options, data)), ContentTypeJSON))

\* variant: delete passes the options of a write, with an empty body
CollectionDelete_WithContentType(c, documentID, queryParams) ==
    /\ kind = "collection"
    /\ Send(c, "delete", Args(documentID, Undefined, queryParams),
            Request(c, "DELETE",
                    WithQueryParams(_rootPath(_options) \o "/" \o documentID, queryParams),
                    Undefined, ContentTypeJSON))

CollectionDelete(c, documentID, queryParams) ==
    /\ kind = "collection"
    /\ Send(c, "delete", Args(documentID, Undefined, queryParams),
            Request(c, "DELETE",
                    WithQueryParams(_rootPath(_options) \o "/" \o documentID, queryParams),
                    Undefined, <<>>))

SingleFind(c, queryParams) ==
    /\ kind = "single"
    /\ Send(c, "find", Args("", Undefined, queryParams),
            Request(c, "GET", WithQueryParams(_rootPath(_options), queryParams),
                    Undefined, <<>>))

\* variant: the resource name is appended to the root path
SingleUpdate_AppendsResource(c, data, queryParams) ==
    /\ kind = "single"
    /\ Send(c, "update", Args("", data, queryParams),
            Request(c, "PUT",
                    WithQueryParams(_rootPath(_options) \o "/" \o _resource(_options),
                                    queryParams),
                    Str(SingleBody(_options, data)), ContentTypeJSON))

SingleUpdate(c, data, queryParams) ==
    /\ kind = "single"
    /\ Send(c, "update", Args("", data, queryParams),
            Request(c, "PUT", WithQueryParams(_rootPath(_options), queryParams),
                    Str(SingleBody(_options, data)), ContentTypeJSON))

SingleDelete(c, queryParams) ==
    /\ kind = "single"
    /\ Send(c, "delete", Args("", Undefined, queryParams),
            Request(c, "DELETE", WithQueryParams(_rootPath(_options), queryParams),
                    Undefined, <<>>))

\* the HTTP client's promise resolves with a response: delete returns, the
\* other methods go on to response.json()
ClientResolves(c) ==
    /\ calls[c].pc = "awaitClient"
    /\ calls' = [calls EXCEPT ![c] =
                    IF @.op = "delete"
                    THEN [@ EXCEPT !.pc = "returned", !.outcome = "undefined"]
                    ELSE [@ EXCEPT !.pc = "awaitJson"]]
    /\ UNCHANGED <<kind, _options, clients, requests, invocation, returned>>

\* variant: the first rejection is caught and the request is sent once more
ClientRejects_RetriesOnce(c, error) ==
    /\ calls[c].pc = "awaitClient"
    /\ LET sent == SelectSeq(requests, LAMBDA r : r.call = c)
       IN  IF Len(sent) = 1
           THEN /\ requests' = Append(requests, sent[1])
                /\ UNCHANGED calls
           ELSE /\ calls' = [calls EXCEPT ![c] = [@ EXCEPT !.pc = "threw", !.outcome = error]]
                /\ UNCHANGED requests
    /\ UNCHANGED <<kind, _options, clients, invocation, returned>>

\* the HTTP client's promise rejects: the await throws and the method has no catch
ClientRejects(c, error) ==
    /\ calls[c].pc = "awaitClient"
    /\ calls' = [calls EXCEPT ![c] = [@ EXCEPT !.pc = "threw", !.outcome = error]]
    /\ UNCHANGED <<kind, _options, clients, requests, invocation, returned>>

\* response.json() resolves: the method returns the parsed body
JsonResolves(c, json) ==
    /\ calls[c].pc = "awaitJson"
    /\ calls' = [calls EXCEPT ![c] = [@ EXCEPT !.pc = "returned", !.outcome = json]]
    /\ UNCHANGED <<kind, _options, clients, requests, invocation, returned>>

\* response.json() rejects
JsonRejects(c, error) ==
    /\ calls[c].pc = "awaitJson"
    /\ calls' = [calls EXCEPT ![c] = [@ EXCEPT !.pc = "threw", !.outcome = error]]
    /\ UNCHANGED <<kind, _options, clients, requests, invocation, returned>>

\* the state after new CollectionTypeManager(options, httpClient) or
\* new SingleTypeManager(options, httpClient)
Init ==
    /\ kind \in {"collection", "single"}
    /\ _options \in Options
    /\ calls = [c \in CallIds |-> IdleCall]
    /\ requests = <<>>
    /\ clients = <<NoInterceptors>>
    /\ invocation = NoInvocation
    /\ returned = Undefined

Next ==
    \/ \E c \in DOMAIN calls, q \in CallQueryParams : CollectionFind(c, q)
    \/ \E c \in DOMAIN calls, id \in DocumentIds, q \in CallQueryParams :
           CollectionFindOne(c, id, q)
    \/ \E c \in DOMAIN calls, d \in Payloads, q \in CallQueryParams : CollectionCreate(c, d, q)
    \/ \E c \in DOMAIN calls, id \in DocumentIds, d \in Payloads, q \in CallQueryParams :
           CollectionUpdate(c, id, d, q)
    \/ \E c \in DOMAIN calls, id \in DocumentIds, q \in CallQueryParams :
           CollectionDelete(c, id, q)
    \/ \E c \in DOMAIN calls, q \in CallQueryParams : SingleFind(c, q)
    \/ \E c \in DOMAIN calls, d \in Payloads, q \in CallQueryParams : SingleUpdate(c, d, q)
    \/ \E c \in DOMAIN calls, q \in CallQueryParams : SingleDelete(c, q)
    \/ \E c \in DOMAIN calls : ClientResolves(c)
    \/ \E c \in DOMAIN calls, e \in HttpErrors : ClientRejects(c, e)
    \/ \E c \in DOMAIN calls, j \in ResponseBodies : JsonResolves(c, j)
    \/ \E c \in DOMAIN calls, e \in JsonErrors : JsonRejects(c, e)

Spec == Init /\ [][Next]_vars

\* new CollectionTypeManager(options, httpClient), of which only the
\* methods that send a payload are called
InitCollection ==
    /\ kind = "collection"
    /\ _options \in Options
    /\ calls = [c \in CallIds |-> IdleCall]
    /\ requests = <<>>
    /\ clients = <<NoInterceptors>>
    /\ invocation = NoInvocation
    /\ returned = Undefined

NextCollectionWrites ==
    \/ \E c \in DOMAIN calls, d \in Payloads, q \in CallQueryParams : CollectionCreate(c, d, q)
    \/ \E c \in DOMAIN calls, id \in DocumentIds, d \in Payloads, q \in CallQueryParams :
           CollectionUpdate(c, id, d, q)
    \/ \E c \in DOMAIN calls : ClientResolves(c)
    \/ \E c \in DOMAIN calls, e \in HttpErrors : ClientRejects(c, e)
    \/ \E c \in DOMAIN calls, j \in ResponseBodies : JsonResolves(c, j)
    \/ \E c \in DOMAIN calls, e \in JsonErrors : JsonRejects(c, e)

SpecCollectionWrites == InitCollection /\ [][NextCollectionWrites]_vars

(***************************************************************************)
(* Errors.  An error object is a record of its class, its message, the     *)
(* request and the response it carries (objects are told apart by a name,  *)
(* '' standing for none) and its fileId.                                   *)
(***************************************************************************)
ErrorObject(class, message, request, response, fileId) ==
    [class |-> class, message |-> message, request |-> request,
     response |-> response, fileId |-> fileId]

\* the superclass of the built-in errors and of the errors of ../errors
HTTPErrorClasses ==
    [Error |-> "", TypeError |-> "Error", SyntaxError |-> "Error",
     HTTPError |-> "Error", HTTPNotFoundError |-> "HTTPError",
     HTTPForbiddenError |-> "HTTPError", HTTPInternalServerError |-> "HTTPError"]

\* the superclass of the errors of files/errors.ts
FileErrorClasses ==
    [FileError |-> "HTTPError", FileNotFoundError |-> "HTTPNotFoundError",
     FileForbiddenError |-> "HTTPForbiddenError"]

RECURSIVE IsSubclass(_, _)
IsSubclass(class, of) ==
    \/ class = of
    \/ /\ class \in DOMAIN FileErrorClasses
       /\ IsSubclass(FileErrorClasses[class], of)
    \/ /\ class \in DOMAIN HTTPErrorClasses
       /\ HTTPErrorClasses[class] # ""
       /\ IsSubclass(HTTPErrorClasses[class], of)

\* value instanceof class: false of null and of every value that is no error
InstanceOf(value, class) == "class" \in DOMAIN value /\ IsSubclass(value.class, class)

\* new HTTPError(response, request) and its subclasses: the error keeps both
HTTPErrorObject(class, response, request) ==
    ErrorObject(class, "", request, response, Undefined)

\* variant: the arguments of super() are swapped
FileNotFoundError_SwapsRequestResponse(fileId, originalError) ==
    [HTTPErrorObject("FileNotFoundError", originalError.request, originalError.response)
        EXCEPT !.fileId = fileId,
               !.message = "File with ID " \o String(fileId)
                   \o " not found. The requested file may have been deleted or never existed."]

\* new FileNotFoundError(fileId, originalError)
FileNotFoundError(fileId, originalError) ==
    [HTTPErrorObject("FileNotFoundError", originalError.response, originalError.request)
        EXCEPT !.fileId = fileId,
               !.message = "File with ID " \o String(fileId)
                   \o " not found. The requested file may have been deleted or never existed."]

\* new FileForbiddenError(originalError, fileId)
FileForbiddenError(originalError, fileId) ==
    [HTTPErrorObject("FileForbiddenError", originalError.response, originalError.request)
        EXCEPT !.fileId = fileId,
               !.message =
                   IF fileId # Undefined
                   THEN "Access to file with ID " \o String(fileId)
                            \o " is forbidden. You may not have sufficient permissions."
                   ELSE "Access to files is forbidden. You may not have sufficient permissions."]

\* FileErrorMapper.createMapper(fileId)(error)
createMapper(fileId, error) ==
    IF InstanceOf(error, "HTTPNotFoundError")
    THEN (IF fileId # Undefined THEN FileNotFoundError(fileId, error) ELSE Null)
    ELSE IF InstanceOf(error, "HTTPForbiddenError")
    THEN FileForbiddenError(error, fileId)
    ELSE Null

(***************************************************************************)
(* The validator of file query parameters                                  *)
(***************************************************************************)
\* typeof value
TypeOf(value) ==
    IF value.t \in {"null", "array", "object"} THEN "object" ELSE value.t

\* validateFileQueryParams(queryParams) in its version with the short
\* messages: the error it throws, undefined when it returns
validateFileQueryParamsShort(queryParams) ==
    IF ~Truthy(queryParams) THEN Undefined
    ELSE
    LET filters == Get(queryParams, "filters")
        sort == Get(queryParams, "sort")
        Invalid(message) == ErrorObject("Error", message, "", "", Undefined)
    IN  IF filters # Undefined /\ TypeOf(filters) # "object"
        THEN Invalid("Invalid filters parameter: must be an object")
        ELSE IF sort = Undefined THEN Undefined
        ELSE IF TypeOf(sort) # "string" /\ ~IsArray(sort)
        THEN Invalid("Invalid sort parameter: must be a string or array of strings")
        ELSE IF IsArray(sort) /\ \E i \in 1..Len(sort.kids) : TypeOf(sort.kids[i]) # "string"
        THEN Invalid("Invalid sort parameter: array items must be strings")
        ELSE Undefined

\* variant: the position named is the one of the last non-string element
validateFileQueryParams_LastPosition(queryParams) ==
    IF ~Truthy(queryParams) THEN Undefined
    ELSE
    LET filters == Get(queryParams, "filters")
        sort == Get(queryParams, "sort")
        Invalid(message) == ErrorObject("Error", message, "", "", Undefined)
        bad == {i \in 1..Len(sort.kids) : TypeOf(sort.kids[i]) # "string"}
        index == CHOOSE i \in bad : \A j \in bad : i >= j
    IN  IF filters # Undefined /\ TypeOf(filters) # "object"
        THEN Invalid("Invalid 'filters' parameter: must be an object, received "
                         \o TypeOf(filters)
                         \o ". Example: { mime: { $contains: 'image' } }")
        ELSE IF sort = Undefined THEN Undefined
        ELSE IF TypeOf(sort) # "string" /\ ~IsArray(sort)
        THEN Invalid("Invalid 'sort' parameter: must be a string or array of strings, received "
                         \o TypeOf(sort)
                         \o ". Examples: 'name:asc' or ['name:asc', 'createdAt:desc']")
        ELSE IF IsArray(sort) /\ bad # {}
        THEN Invalid("Invalid 'sort' parameter: array item at position "
                         \o ToString(index - 1) \o " must be a string, received "
                         \o TypeOf(sort.kids[index])
                         \o ". Example format: 'fieldName:asc' or 'fieldName:desc'")
        ELSE Undefined

\* validateFileQueryParams(queryParams) in its version with the detailed
\* messages: the error it throws, undefined when it returns
validateFileQueryParams(queryParams) ==
    IF ~Truthy(queryParams) THEN Undefined
    ELSE
    LET filters == Get(queryParams, "filters")
        sort == Get(queryParams, "sort")
        Invalid(message) == ErrorObject("Error", message, "", "", Undefined)
        bad == {i \in 1..Len(sort.kids) : TypeOf(sort.kids[i]) # "string"}
        index == CHOOSE i \in bad : \A j \in bad : i <= j
    IN  IF filters # Undefined /\ TypeOf(filters) # "object"
        THEN Invalid("Invalid 'filters' parameter: must be an object, received "
                         \o TypeOf(filters)
                         \o ". Example: { mime: { $contains: 'image' } }")
        ELSE IF sort = Undefined THEN Undefined
        ELSE IF TypeOf(sort) # "string" /\ ~IsArray(sort)
        THEN Invalid("Invalid 'sort' parameter: must be a string or array of strings, received "
                         \o TypeOf(sort)
                         \o ". Examples: 'name:asc' or ['name:asc', 'createdAt:desc']")
        ELSE IF IsArray(sort) /\ bad # {}
        THEN Invalid("Invalid 'sort' parameter: array item at position "
                         \o ToString(index - 1) \o " must be a string, received "
                         \o TypeOf(sort.kids[index])
                         \o ". Example format: 'fieldName:asc' or 'fieldName:desc'")
        ELSE Undefined

(***************************************************************************)
(* StrapiConfigValidator.  The injected URLValidator is the set of the     *)
(* values its validate() accepts; for every other value it throws a        *)
(* URLValidationError.                                                     *)
(***************************************************************************)
\* new StrapiValidationError(cause)
StrapiValidationError(cause) == [class |-> "StrapiValidationError", cause |-> cause]

\* new TypeError(message)
TypeErrorObject(message) == ErrorObject("TypeError", message, "", "", Undefined)

\* this._urlValidator.validate(url): the error it throws, undefined when it returns
URLValidatorValidate(urlValidator, url) ==
    IF url \in urlValidator THEN Undefined
    ELSE ErrorObject("URLValidationError", "invalid url", "", "", Undefined)

\* validateBaseURL(url): the error it throws, undefined when it returns
validateBaseURL(urlValidator, url) ==
    LET e == URLValidatorValidate(urlValidator, url)
    IN  IF e = Undefined THEN Undefined
        ELSE IF InstanceOf(e, "URLValidationError") THEN StrapiValidationError(e)
        ELSE e

\* validateHeaders(headers): the error it throws, undefined when it returns
validateHeaders(headers) ==
    IF headers = Undefined THEN Undefined
    ELSE IF headers = Null \/ TypeOf(headers) # "object" \/ IsArray(headers)
    THEN StrapiValidationError(TypeErrorObject("Headers must be a valid object."))
    ELSE IF \E i \in 1..Len(headers.kids) : TypeOf(headers.kids[i]) # "string"
    THEN StrapiValidationError(TypeErrorObject("Header values must be strings."))
    ELSE Undefined

\* variant: the headers are validated before the base URL
validateConfig_HeadersFirst(urlValidator, config) ==
    IF config = Undefined \/ config = Null \/ IsArray(config) \/ TypeOf(config) # "object"
    THEN StrapiValidationError(
             TypeErrorObject("The provided configuration is not a valid object."))
    ELSE LET e == validateHeaders(Get(config, "headers"))
         IN  IF e # Undefined THEN e
             ELSE validateBaseURL(urlValidator, Get(config, "baseURL"))

\* validateConfig(config): the error it throws, undefined when it returns
validateConfig(urlValidator, config) ==
    IF config = Undefined \/ config = Null \/ IsArray(config) \/ TypeOf(config) # "object"
    THEN StrapiValidationError(
             TypeErrorObject("The provided configuration is not a valid object."))
    ELSE LET e == validateBaseURL(urlValidator, Get(config, "baseURL"))
         IN  IF e # Undefined THEN e
             ELSE validateHeaders(Get(config, "headers"))

ConfigBaseURLs == {Undefined, Str("https://example.com"), Str("invalid-url")}

ConfigHeaders ==
    {Undefined, Null, Arr(<<>>), Str("h"), Obj(<<>>, <<>>),
     Obj(<<"X-Custom">>, <<Str("v")>>),
     Obj(<<"X-Custom", "X-Other">>, <<Str("v"), Num(1)>>),
     Obj(<<"X-Custom">>, <<Null>>)}

\* the values given to validateConfig as config
Configs ==
    {Undefined, Null, Num(2), Arr(<<>>), Str("config"), Obj(<<>>, <<>>)}
    \cup {Obj(<<"baseURL">>, <<u>>) : u \in ConfigBaseURLs \ {Undefined}}
    \cup {Obj(<<"baseURL", "headers">>, <<u, h>>) : u \in ConfigBaseURLs, h \in ConfigHeaders}

\* the validators injected: the mock that accepts everything, and one that
\* accepts one URL
URLValidators == {ConfigBaseURLs, {Str("https://example.com")}}

(***************************************************************************)
(* FilesManager.  Every method creates a client of its own with            *)
(* createFileHttpClient, whose response interceptor maps the errors of the *)
(* request; the method rethrows what it catches.  A client is the list of  *)
(* its response error interceptors, each one given by the fileId of its    *)
(* mapper; the clients are held in the variable clients, and a call keeps  *)
(* the index of its own.                                                   *)
(***************************************************************************)
FILE_API_PREFIX == "/upload"

FileIds == {Num(1), Num(999)}

FileInfos == {Obj(<<"name">>, <<Str("n")>>)}

Blobs == {"blob"}

\* the queryParams given to FilesManager.find, well and badly shaped
FileQueryParams ==
    {Undefined,
     Obj(<<"sort">>, <<Str("name:asc")>>),
     Obj(<<"filters">>, <<Obj(<<"mime">>, <<Str("image")>>)>>),
     Obj(<<"filters">>, <<Str("name:asc")>>),
     Obj(<<"sort">>, <<Num(1)>>),
     Obj(<<"sort">>, <<Arr(<<Str("name:asc"), Num(1)>>)>>)}

\* what the request of a client fails with before the interceptors run: an
\* Error of fetch, the errors of a 500, 404 and 403 status, and a value that
\* is no Error
TransportErrors ==
    {ErrorObject("Error", "Network error", "", "", Undefined),
     HTTPErrorObject("HTTPInternalServerError", "response500", "request"),
     HTTPErrorObject("HTTPNotFoundError", "response404", "request"),
     HTTPErrorObject("HTTPForbiddenError", "response403", "request"),
     Str("timeout")}

FileArgs(fileId, fileInfo, queryParams) ==
    [fileId |-> fileId, fileInfo |-> fileInfo, queryParams |-> queryParams]

\* the error handler createFileHttpClient(fileId) registers: the value it throws
ResponseErrorHandler(fileId, error) ==
    IF InstanceOf(error, "Error") THEN createMapper(fileId, error) ELSE error

\* httpClient.create(): the clients with one more, a new instance without
\* response interceptors
HttpClientCreate(instances) == Append(instances, NoInterceptors)

\* client.interceptors.response.use(undefined, handler), the handler being
\* the one of the mapper of fileId
ResponseUse(instances, client, fileId) ==
    [instances EXCEPT ![client] = Append(@, fileId)]

\* variant: the interceptor is registered on the manager's _httpClient, which
\* is returned
createFileHttpClient_OnSharedClient(instances, fileId) ==
    [client |-> BaseClient, clients |-> ResponseUse(instances, BaseClient, fileId)]

\* createFileHttpClient(fileId): the client it returns and the clients after it
createFileHttpClient(instances, fileId) ==
    LET created == HttpClientCreate(instances)
        client == Len(created)
    IN  [client |-> client, clients |-> ResponseUse(created, client, fileId)]

RECURSIVE RejectedThrough(_, _)
\* the value the request of client rejects with when it fails with error:
\* each error handler is given the value thrown so far and throws the next
RejectedThrough(client, error) ==
    IF client = <<>> THEN error
    ELSE RejectedThrough(Tail(client), ResponseErrorHandler(Head(client), error))

\* the call c leaves idle for the await of the request req on the client
\* createFileHttpClient gave it
FilesSend(c, op, args, created, req) ==
    /\ kind = "files"
    /\ calls[c].pc = "idle"
    /\ \A d \in 1..(c - 1) : calls[d].pc # "idle"
    /\ requests' = Append(requests, req)
    /\ calls' = [calls EXCEPT ![c] =
                    [pc |-> "awaitClient", op |-> op, args |-> args, outcome |-> "",
                     client |-> created.client, rejection |-> Undefined]]
    /\ clients' = created.clients
    /\ UNCHANGED <<kind, _options, invocation, returned>>

FilesFind(c, queryParams) ==
    FilesSend(c, "find", FileArgs(Undefined, Undefined, queryParams),
              createFileHttpClient(clients, Undefined),
              Request(c, "GET", WithQueryParams(FILE_API_PREFIX \o "/files", queryParams),
                      Undefined, <<>>))

FilesFindOne(c, fileId) ==
    FilesSend(c, "findOne", FileArgs(fileId, Undefined, Undefined),
              createFileHttpClient(clients, fileId),
              Request(c, "GET", FILE_API_PREFIX \o "/files/" \o String(fileId),
                      Undefined, <<>>))

\* the body is a FormData with the entry fileInfo
FilesUpdate(c, fileId, fileInfo) ==
    FilesSend(c, "update", FileArgs(fileId, fileInfo, Undefined),
              createFileHttpClient(clients, fileId),
              Request(c, "POST", FILE_API_PREFIX \o "?id=" \o String(fileId),
                      Obj(<<"fileInfo">>, <<Str(JSONStringify(fileInfo))>>), <<>>))

FilesDelete(c, fileId) ==
    FilesSend(c, "delete", FileArgs(fileId, Undefined, Undefined),
              createFileHttpClient(clients, fileId),
              Request(c, "DELETE", FILE_API_PREFIX \o "/files/" \o String(fileId),
                      Undefined, <<>>))

\* the body is a FormData with the entry files
FilesUpload(c, file) ==
    FilesSend(c, "upload", FileArgs(Undefined, Undefined, Undefined),
              createFileHttpClient(clients, Undefined),
              Request(c, "POST", FILE_API_PREFIX,
                      Obj(<<"files">>, <<Str(file)>>), <<>>))

\* the request succeeds: no success handler is registered, every method goes
\* on to response.json()
FilesClientResolves(c) ==
    /\ kind = "files"
    /\ calls[c].pc = "awaitClient"
    /\ calls' = [calls EXCEPT ![c] = [@ EXCEPT !.pc = "awaitJson"]]
    /\ UNCHANGED <<kind, _options, clients, requests, invocation, returned>>

\* the request fails with error: the await throws what the interceptors of
\* the call's client throw, and the catch of the method rethrows it;
\* rejection records the error the request failed with
FilesClientRejects(c, error) ==
    /\ kind = "files"
    /\ calls[c].pc = "awaitClient"
    /\ calls' = [calls EXCEPT ![c] =
                    [@ EXCEPT !.pc = "threw",
                              !.outcome = RejectedThrough(clients[calls[c].client], error),
                              !.rejection = error]]
    /\ UNCHANGED <<kind, _options, clients, requests, invocation, returned>>

\* the state after new FilesManager(httpClient)
InitFiles ==
    /\ kind = "files"
    /\ _options = NoOptions
    /\ calls = [c \in CallIds |-> IdleCall]
    /\ requests = <<>>
    /\ clients = <<NoInterceptors>>
    /\ invocation = NoInvocation
    /\ returned = Undefined

NextFiles ==
    \/ \E c \in DOMAIN calls, q \in FileQueryParams : FilesFind(c, q)
    \/ \E c \in DOMAIN calls, id \in FileIds : FilesFindOne(c, id)
    \/ \E c \in DOMAIN calls, id \in FileIds, info \in FileInfos : FilesUpdate(c, id, info)
    \/ \E c \in DOMAIN calls, id \in FileIds : FilesDelete(c, id)
    \/ \E c \in DOMAIN calls, file \in Blobs : FilesUpload(c, file)
    \/ \E c \in DOMAIN calls : FilesClientResolves(c)
    \/ \E c \in DOMAIN calls, e \in TransportErrors : FilesClientRejects(c, e)
    \/ \E c \in DOMAIN calls, j \in ResponseBodies : JsonResolves(c, j)
    \/ \E c \in DOMAIN calls, e \in JsonErrors : JsonRejects(c, e)

SpecFiles == InitFiles /\ [][NextFiles]_vars

\* FilesManager with MaxConcurrent calls of the methods that take a file
\* id, issued without awaiting one another
InitFilesConcurrent ==
    /\ kind = "files"
    /\ _options = NoOptions
    /\ calls = [c \in 1..MaxConcurrent |-> IdleCall]
    /\ requests = <<>>
    /\ clients = <<NoInterceptors>>
    /\ invocation = NoInvocation
    /\ returned = Undefined

NextFilesConcurrent ==
    \/ \E c \in DOMAIN calls, id \in FileIds : FilesFindOne(c, id)
    \/ \E c \in DOMAIN calls, id \in FileIds, info \in FileInfos : FilesUpdate(c, id, info)
    \/ \E c \in DOMAIN calls, id \in FileIds : FilesDelete(c, id)
    \/ \E c \in DOMAIN calls : FilesClientResolves(c)
    \/ \E c \in DOMAIN calls, e \in TransportErrors : FilesClientRejects(c, e)
    \/ \E c \in DOMAIN calls, j \in ResponseBodies : JsonResolves(c, j)
    \/ \E c \in DOMAIN calls, e \in JsonErrors : JsonRejects(c, e)

SpecFilesConcurrent == InitFilesConcurrent /\ [][NextFilesConcurrent]_vars

(***************************************************************************)
(* Concurrent calls: the callers issue MaxConcurrent calls on one manager  *)
(* without awaiting them, so that any number of them are suspended at the  *)
(* HTTP client at once and are resumed in any order.                       *)
(***************************************************************************)
ConcurrentOptions ==
    [resource |-> "users", path |-> Undefined,
     plugin |-> Obj(<<"name">>, <<Str("users-permissions")>>)]

InitConcurrent ==
    /\ kind \in {"collection", "single"}
    /\ _options = ConcurrentOptions
    /\ calls = [c \in 1..MaxConcurrent |-> IdleCall]
    /\ requests = <<>>
    /\ clients = <<NoInterceptors>>
    /\ invocation = NoInvocation
    /\ returned = Undefined

SpecConcurrent == InitConcurrent /\ [][Next]_vars

(***************************************************************************)
(* The exported pure functions, applied to one invocation                  *)
(***************************************************************************)
AppendQueryParams ==
    /\ invocation.fn = "appendQueryParams"
    /\ returned = Undefined
    /\ returned' = Str(appendQueryParams(invocation.url, invocation.queryParams))
    /\ UNCHANGED <<kind, _options, clients, calls, requests, invocation>>

ShouldWrapData ==
    /\ invocation.fn = "shouldWrapData"
    /\ returned = Undefined
    /\ returned' = Bool(shouldWrapData(invocation.pluginName))
    /\ UNCHANGED <<kind, _options, clients, calls, requests, invocation>>

\* the invocations of the mappers FileErrorMapper.createMapper returns
MapperInvocations ==
    {[fn |-> "createMapper", fileId |-> f, error |-> e] :
         f \in {Undefined} \cup FileIds, e \in {x \in TransportErrors : InstanceOf(x, "Error")}}

CreateMapper ==
    /\ invocation.fn = "createMapper"
    /\ returned = Undefined
    /\ returned' = createMapper(invocation.fileId, invocation.error)
    /\ UNCHANGED <<kind, _options, clients, calls, requests, invocation>>

\* the outcome of a call of a function that returns nothing: the error it
\* threw, undefined when it returned
Thrown(error) == [threw |-> error]

\* the elements of the arrays with holes
ArrayElements == {Undefined, Null, Str("name:asc"), Num(1)}

SparseArrays == {Arr(<<a, b, c>>) : a \in ArrayElements, b \in ArrayElements, c \in ArrayElements}

\* appendQueryParams on an array of three elements, top-level or nested
SparseArrayInvocations ==
    {[fn |-> "appendQueryParams", url |-> u, queryParams |-> q, pluginName |-> Undefined] :
         u \in BaseURLs,
         q \in {Obj(<<"filters">>, <<a>>) : a \in SparseArrays}
               \cup {Obj(<<"filters">>, <<Obj(<<"$or">>, <<a>>)>>) : a \in SparseArrays}}

FlatKeys == {"a", "b", "p&q"}

FlatValues == {Num(1), Str("x"), Bool(TRUE), Str("a&b=c"), Str("x y+z%")}

\* appendQueryParams on a flat object of one or two scalars
FlatInvocations ==
    {[fn |-> "appendQueryParams", url |-> u, queryParams |-> q, pluginName |-> Undefined] :
         u \in BaseURLs,
         q \in {Obj(<<k>>, <<v>>) : k \in FlatKeys, v \in FlatValues}
               \cup {Obj(<<k[1], k[2]>>, <<v, w>>) :
                         k \in {x \in FlatKeys \X FlatKeys : x[1] # x[2]},
                         v \in FlatValues, w \in FlatValues}}

\* the options root paths are resolved for, the empty resource name included
RootPathInvocations ==
    {[fn |-> "_rootPath", options |-> o] :
         o \in [resource : Resources \cup {""}, path : Paths, plugin : Plugins]}

\* the getter _rootPath read on a manager of these options
RootPath ==
    /\ invocation.fn = "_rootPath"
    /\ returned = Undefined
    /\ returned' = Str(_rootPath(invocation.options))
    /\ UNCHANGED <<kind, _options, clients, calls, requests, invocation>>

ValidatedFilters ==
    {Undefined, Null, Arr(<<>>), Obj(<<"mime">>, <<Str("image")>>), Str("name:asc"), Num(1)}

ValidatedSorts ==
    {Undefined, Null, Num(1), Obj(<<"name">>, <<Str("asc")>>), Str("name:asc"), Arr(<<>>),
     Arr(<<Str("name:asc"), Str("size:desc")>>), Arr(<<Str("name:asc"), Num(1)>>),
     Arr(<<Num(1), Str("name:asc")>>), Arr(<<Str("name:asc"), Num(1), Null>>),
     Arr(<<Null, Num(1)>>)}

\* the values given to validateFileQueryParams as queryParams
ValidatedQueryParams ==
    {Undefined, Obj(<<>>, <<>>)}
    \cup {Obj(<<"filters">>, <<f>>) : f \in ValidatedFilters \ {Undefined}}
    \cup {Obj(<<"sort">>, <<s>>) : s \in ValidatedSorts \ {Undefined}}
    \cup {Obj(<<"filters", "sort">>, <<f, s>>) : f \in ValidatedFilters, s \in ValidatedSorts}

\* the calls of the two versions of validateFileQueryParams
FileValidatorInvocations ==
    {[fn |-> "validateFileQueryParams", version |-> v, queryParams |-> q] :
         v \in {"short", "detailed"}, q \in ValidatedQueryParams}

ValidateFileQueryParams ==
    /\ invocation.fn = "validateFileQueryParams"
    /\ returned = Undefined
    /\ returned' = Thrown(IF invocation.version = "short"
                          THEN validateFileQueryParamsShort(invocation.queryParams)
                          ELSE validateFileQueryParams(invocation.queryParams))
    /\ UNCHANGED <<kind, _options, clients, calls, requests, invocation>>

ValidatorInvocations ==
    {[fn |-> "validateConfig", urlValidator |-> v, config |-> c] :
         v \in URLValidators, c \in Configs}

ValidateConfig ==
    /\ invocation.fn = "validateConfig"
    /\ returned = Undefined
    /\ returned' = Thrown(validateConfig(invocation.urlValidator, invocation.config))
    /\ UNCHANGED <<kind, _options, clients, calls, requests, invocation>>

InitPure ==
    /\ kind = "none"
    /\ _options = NoOptions
    /\ calls = [c \in CallIds |-> IdleCall]
    /\ requests = <<>>
    /\ clients = <<NoInterceptors>>
    /\ invocation \in Invocations(MaxNodes) \cup MapperInvocations \cup ValidatorInvocations
                       \cup SparseArrayInvocations \cup FlatInvocations
                       \cup RootPathInvocations \cup FileValidatorInvocations
    /\ returned = Undefined

NextPure ==
    \/ AppendQueryParams
    \/ ShouldWrapData
    \/ CreateMapper
    \/ ValidateConfig
    \/ RootPath
    \/ ValidateFileQueryParams

SpecPure == InitPure /\ [][NextPure]_vars

(***************************************************************************)
(* Properties of the managers (specification Spec)                         *)
(***************************************************************************)
StartsWith(s, prefix) == Len(s) >= Len(prefix) /\ SubSeq(s, 1, Len(prefix)) = prefix

\* the call that sent the i-th request
CallOf(i) == calls[requests[i].call]

\* the URL of a request of the call `call` on a manager whose root path is
\* root: the root path, the document id of the methods that take one, and
\* the query string of the queryParams the callers pass
UrlUnder(root, call) ==
    root
    \o (IF call.args.documentID = "" THEN "" ELSE "/" \o call.args.documentID)
    \o (IF call.args.queryParams = Undefined THEN "" ELSE "?locale=en")

AllRequestsUnder(root) ==
    \A i \in 1..Len(requests) : requests[i].url = UrlUnder(root, CallOf(i))

HasPlugin == _options.plugin # Undefined

HasPrefixOption == HasPlugin /\ \E i \in 1..Len(_options.plugin.keys) :
                                    _options.plugin.keys[i] = "prefix"

\* C1: with a non-empty explicit path X the root path is X, whatever the
\* plugin and the resource name are, and every request is addressed under X.
C1_ExplicitPathPrecedence ==
    (_options.path.t = "string" /\ _options.path.s # "")
        => /\ _rootPath(_options) = _options.path.s
           /\ AllRequestsUnder(_options.path.s)

C1_Witness ==
    /\ _options.path = Str("/custom/endpoint")
    /\ HasPrefixOption /\ Get(_options.plugin, "prefix") = Str("custom")
    /\ Len(requests) = MaxCalls

\* C2: without explicit path and with a plugin, the prefix is plugin.prefix
\* when it is defined and plugin.name otherwise; when that prefix is not
\* empty the root path is /prefix/resource.
C2_PrefixDefaulting ==
    LET prefix == IF HasPrefixOption THEN Get(_options.plugin, "prefix").s
                  ELSE Get(_options.plugin, "name").s
    IN  (_options.path = Undefined /\ HasPlugin /\ prefix # "")
            => /\ _rootPath(_options) = "/" \o prefix \o "/" \o _options.resource
               /\ AllRequestsUnder("/" \o prefix \o "/" \o _options.resource)

C2_Witness ==
    /\ _options.path = Undefined
    /\ HasPrefixOption
    /\ Get(_options.plugin, "name") = Str("blog")
    /\ Get(_options.plugin, "prefix") = Str("custom")
    /\ \E i \in 1..Len(requests) : StartsWith(requests[i].url, "/custom/users")

C2_WitnessNameOnly ==
    /\ _options.path = Undefined
    /\ HasPlugin /\ ~HasPrefixOption
    /\ \E i \in 1..Len(requests) : StartsWith(requests[i].url, "/blog/articles")

\* C3: without explicit path and with plugin prefix '', the root path is
\* /resource for every plugin name: the name is no fallback prefix.
C3_EmptyPrefixSuppression ==
    (_options.path = Undefined /\ HasPrefixOption /\ Get(_options.plugin, "prefix") = Str(""))
        => /\ _rootPath(_options) = "/" \o _options.resource
           /\ AllRequestsUnder("/" \o _options.resource)

C3_Witness ==
    /\ _options.path = Undefined
    /\ HasPrefixOption
    /\ Get(_options.plugin, "prefix") = Str("")
    /\ Get(_options.plugin, "name") = Str("blog")
    /\ \E i \in 1..Len(requests) : StartsWith(requests[i].url, "/articles")

\* the requests of the calls of a method that sends a payload
IsWrite(i) == CallOf(i).op \in {"create", "update"}

Wrapped(data) == Str(JSONStringify(Obj(<<"data">>, <<data>>)))

Raw(data) == Str(JSONStringify(data))

\* C4: create and update of the collection manager send JSON of {data: payload}
\* exactly when shouldWrapData(plugin name) holds, and JSON of the payload
\* otherwise: raw for 'users-permissions', wrapped without plugin.
C4_CollectionWrapsAsShouldWrapData ==
    kind = "collection" =>
        \A i \in 1..Len(requests) : IsWrite(i) =>
            LET data == CallOf(i).args.data
                name == OptGet(_options.plugin, "name")
            IN  /\ (requests[i].body = Wrapped(data)) <=> shouldWrapData(name)
                /\ (requests[i].body = Raw(data)) <=> ~shouldWrapData(name)
                /\ name = Str("users-permissions") => requests[i].body = Raw(data)
                /\ ~HasPlugin => requests[i].body = Wrapped(data)

C4_Witness ==
    /\ kind = "collection"
    /\ OptGet(_options.plugin, "name") = Str("users-permissions")
    /\ \E i \in 1..Len(requests) :
           /\ CallOf(i).op = "create"
           /\ requests[i].body = Str("{\"title\":\"t\"}")

\* C5: update of the single-type manager sends the raw payload when the
\* plugin name is 'users-permissions' and {data: payload} without plugin.
C5_SingleUpdateWrapsLikeCollection ==
    kind = "single" =>
        \A i \in 1..Len(requests) : CallOf(i).op = "update" =>
            LET data == CallOf(i).args.data
                name == OptGet(_options.plugin, "name")
            IN  /\ name = Str("users-permissions") => requests[i].body = Raw(data)
                /\ ~HasPlugin => requests[i].body = Wrapped(data)

\* the query string of the queryParams the callers pass to a manager
QueryStringOf(call) == IF call.args.queryParams = Undefined THEN "" ELSE "?locale=en"

\* C11: in the collection manager find and create address the root path and
\* findOne, update and delete address rootPath/id; the query string comes
\* last, after the id segment, and never between the root path and the id.
C11_CollectionUrls ==
    kind = "collection" =>
        \A i \in 1..Len(requests) :
            LET call == CallOf(i)
                root == _rootPath(_options)
            IN  /\ call.op \in {"find", "create"} =>
                       requests[i].url = root \o QueryStringOf(call)
                /\ call.op \in {"findOne", "update", "delete"} =>
                       requests[i].url = root \o "/" \o call.args.documentID
                                              \o QueryStringOf(call)

C11_Witness ==
    /\ kind = "collection"
    /\ \E i \in 1..Len(requests) :
           /\ CallOf(i).op = "findOne"
           /\ requests[i].url = "/articles/1?locale=en"

\* C12: every operation of the single-type manager addresses the root path
\* and the optional query string, without id segment or resource name: with
\* an explicit path the URL is that path, not path/resource.
C12_SingleAddressesRootOnly ==
    kind = "single" =>
        \A i \in 1..Len(requests) :
            /\ requests[i].url = _rootPath(_options) \o QueryStringOf(CallOf(i))
            /\ _options.path = Str("/custom/endpoint") =>
                   requests[i].url = "/custom/endpoint" \o QueryStringOf(CallOf(i))

C12_Witness ==
    /\ kind = "single"
    /\ _options.path = Str("/custom/endpoint")
    /\ _options.resource = "articles"
    /\ \E i \in 1..Len(requests) :
           /\ CallOf(i).op = "update"
           /\ requests[i].url = "/custom/endpoint"

\* the requests the call c has made on the HTTP client, in order
RequestsOf(c) == SelectSeq(requests, LAMBDA r : r.call = c)

MethodOf ==
    [find |-> "GET", findOne |-> "GET", create |-> "POST", update |-> "PUT",
     delete |-> "DELETE"]

\* C13: a call that has started has issued exactly one request, with the
\* method of its operation (GET for find and findOne, POST for create, PUT
\* for update, DELETE for delete), however far it has run; a call that has
\* not started has issued none.
C13_OneRequestPerCall ==
    \A c \in DOMAIN calls :
        IF calls[c].pc = "idle" THEN RequestsOf(c) = <<>>
        ELSE /\ Len(RequestsOf(c)) = 1
             /\ RequestsOf(c)[1].method = MethodOf[calls[c].op]

C13_Witness ==
    \E c \in DOMAIN calls :
        /\ calls[c].pc = "returned"
        /\ calls[c].op = "update"
        /\ Len(RequestsOf(c)) = 1
        /\ RequestsOf(c)[1].method = "PUT"

\* C14: the requests of create and update carry a JSON body and the header
\* Content-Type: application/json; those of find, findOne and delete carry
\* no body and no header.
C14_OnlyWritesCarryBody ==
    \A i \in 1..Len(requests) :
        IF IsWrite(i)
        THEN /\ requests[i].body \in {Wrapped(CallOf(i).args.data), Raw(CallOf(i).args.data)}
             /\ requests[i].headers = << <<"Content-Type", "application/json">> >>
        ELSE /\ requests[i].body = Undefined
             /\ requests[i].headers = <<>>

C14_Witness ==
    \E i \in 1..Len(requests) :
        /\ CallOf(i).op = "create"
        /\ requests[i].body = Str("{\"data\":{\"title\":\"t\"}}")
        /\ requests[i].headers = << <<"Content-Type", "application/json">> >>

C14_WitnessDelete ==
    \E i \in 1..Len(requests) :
        /\ CallOf(i).op = "delete"
        /\ requests[i].body = Undefined
        /\ requests[i].headers = <<>>

\* the call c has thrown error to its caller
Threw(c, error) == calls[c].pc = "threw" /\ calls[c].outcome = error

\* C15: when the HTTP client's promise or response.json() rejects with an
\* error, the call throws that very error in the same step and no request is
\* issued; a call that has thrown stays as it is and issues no request.
C15_ErrorsPropagateNoRetry ==
    [][/\ \A c \in DOMAIN calls, e \in HttpErrors :
              ClientRejects(c, e) => Threw(c, e)' /\ requests' = requests
       /\ \A c \in DOMAIN calls, e \in JsonErrors :
              JsonRejects(c, e) => Threw(c, e)' /\ requests' = requests
       /\ \A c \in DOMAIN calls :
              calls[c].pc = "threw" => calls'[c] = calls[c] /\ RequestsOf(c)' = RequestsOf(c)
      ]_vars

C15_Witness ==
    \E c \in DOMAIN calls : Threw(c, "TypeError") /\ Len(RequestsOf(c)) = 1

C15_WitnessJson ==
    \E c \in DOMAIN calls : Threw(c, "SyntaxError") /\ Len(RequestsOf(c)) = 1

(***************************************************************************)
(* Properties of concurrent calls (specification SpecConcurrent)           *)
(***************************************************************************)
\* the request the call sends when it is the only call on the manager: a
\* function of the manager's options and of the call's own arguments
RequestAlone(c) ==
    LET call == calls[c]
        write == call.op \in {"create", "update"}
        raw == kind = "collection"
                   /\ OptGet(_options.plugin, "name") = Str("users-permissions")
    IN  [call |-> c,
         method |-> MethodOf[call.op],
         url |-> UrlUnder(_rootPath(_options), call),
         body |-> IF ~write THEN Undefined
                  ELSE IF raw THEN Raw(call.args.data) ELSE Wrapped(call.args.data),
         headers |-> IF write THEN << <<"Content-Type", "application/json">> >> ELSE <<>>]

\* a step changes the state of at most one call and leaves the requests of
\* every other call as they are
StepOfOneCall ==
    \A c, d \in DOMAIN calls :
        (c # d /\ calls'[c] # calls[c]) =>
            calls'[d] = calls[d] /\ RequestsOf(d)' = RequestsOf(d)

\* a call suspended at the HTTP client or at response.json() can be resumed
\* with a result or an error whatever the other calls are doing
NoneBlocked ==
    \A c \in DOMAIN calls :
        /\ calls[c].pc = "awaitClient" =>
               ENABLED ClientResolves(c) /\ \A e \in HttpErrors : ENABLED ClientRejects(c, e)
        /\ calls[c].pc = "awaitJson" =>
               /\ \A j \in ResponseBodies : ENABLED JsonResolves(c, j)
               /\ \A e \in JsonErrors : ENABLED JsonRejects(c, e)

\* C16: with several calls in flight on one manager, in every interleaving
\* the request of each call is the one it sends when it runs alone, no call
\* waits for another, and the resumption, failure or return of one call
\* changes neither the state nor the request of another.
C16_ConcurrentCallsIndependent ==
    /\ [](\A c \in DOMAIN calls :
              calls[c].pc # "idle" => RequestsOf(c) = <<RequestAlone(c)>>)
    /\ []NoneBlocked
    /\ [][StepOfOneCall]_vars

C16_Witness ==
    /\ Len(requests) = 2
    /\ calls[1].pc = "awaitClient" /\ calls[1].op = "update"
    /\ Threw(2, "HTTPError") /\ calls[2].op = "find"
    /\ requests[1].url # requests[2].url

C16_WitnessReturned ==
    /\ Threw(1, "TypeError")
    /\ calls[2].pc = "returned" /\ calls[2].outcome = "json"

(***************************************************************************)
(* Properties of the files manager (specification SpecFiles)               *)
(***************************************************************************)
\* the request of the call c has failed, with an error of class `class`
FailedWith(c, class) ==
    /\ calls[c].pc = "threw"
    /\ calls[c].rejection # Undefined
    /\ InstanceOf(calls[c].rejection, class)

\* the request of the call c has failed with a value that is neither a
\* not-found nor a forbidden HTTP error
FailedOtherwise(c) ==
    /\ calls[c].pc = "threw"
    /\ calls[c].rejection # Undefined
    /\ ~InstanceOf(calls[c].rejection, "HTTPNotFoundError")
    /\ ~InstanceOf(calls[c].rejection, "HTTPForbiddenError")

\* C17: a find call whose queryParams are wrongly shaped (filters not an
\* object, sort neither a string nor an array, a sort array with an item that
\* is no string) has sent no request and has thrown the validation error
\* that names the parameter.
C17_BadShapeFailsBeforeRequest ==
    \A c \in DOMAIN calls :
        (/\ calls[c].pc # "idle"
         /\ calls[c].op = "find"
         /\ validateFileQueryParams(calls[c].args.queryParams) # Undefined)
            => /\ RequestsOf(c) = <<>>
               /\ calls[c].pc = "threw"
               /\ calls[c].outcome = validateFileQueryParams(calls[c].args.queryParams)

\* C18: a call whose request fails with an error that is neither a not-found
\* nor a forbidden HTTP error (a network Error, the error of a 500 status, a
\* value that is no Error) rejects with that same value.
C18_OtherErrorsRejectUnchanged ==
    \A c \in DOMAIN calls : FailedOtherwise(c) => calls[c].outcome = calls[c].rejection

\* C20: a call made with file id F whose request fails with an HTTP
\* not-found error throws a FileNotFoundError with fileId F, and one whose
\* request fails with an HTTP forbidden error throws a FileForbiddenError
\* with fileId F; both carry the request and the response of the original
\* error.
C20_FileErrorsCarryIdAndOriginal ==
    \A c \in DOMAIN calls :
        LET call == calls[c]
            Carries(class) ==
                /\ call.outcome.class = class
                /\ call.outcome.fileId = call.args.fileId
                /\ call.outcome.request = call.rejection.request
                /\ call.outcome.response = call.rejection.response
        IN  (call.pc = "threw" /\ call.args.fileId # Undefined)
                => /\ FailedWith(c, "HTTPNotFoundError") => Carries("FileNotFoundError")
                   /\ FailedWith(c, "HTTPForbiddenError") => Carries("FileForbiddenError")

C20_Witness ==
    \E c \in DOMAIN calls :
        /\ calls[c].op = "findOne"
        /\ calls[c].args.fileId = Num(999)
        /\ FailedWith(c, "HTTPNotFoundError")
        /\ calls[c].outcome.class = "FileNotFoundError"
        /\ calls[c].outcome.fileId = Num(999)
        /\ calls[c].outcome.request = "request"
        /\ calls[c].outcome.response = "response404"

C20_WitnessForbidden ==
    \E c \in DOMAIN calls :
        /\ calls[c].op = "delete"
        /\ FailedWith(c, "HTTPForbiddenError")
        /\ calls[c].outcome.class = "FileForbiddenError"
        /\ calls[c].outcome.fileId = Num(1)
        /\ calls[c].outcome.response = "response403"

(***************************************************************************)
(* Properties of the pure functions (specification SpecPure)               *)
(***************************************************************************)
Returned(fn) == invocation.fn = fn /\ returned # Undefined

\* C6: shouldWrapData is true for an undefined plugin name, false for
\* 'users-permissions', and true for every other plugin name.
C6_WrapDefault ==
    Returned("shouldWrapData") =>
        returned = Bool(invocation.pluginName # Str("users-permissions"))

C6_Witness ==
    /\ Returned("shouldWrapData")
    /\ invocation.pluginName = Str("users-permissions")
    /\ returned = Bool(FALSE)

C6_WitnessOther ==
    /\ Returned("shouldWrapData")
    /\ invocation.pluginName = Str("upload")
    /\ returned = Bool(TRUE)

\* the query string of the returned URL: what follows the base URL and '?'
ReturnedQuery == SubSeq(returned.s, Len(invocation.url) + 2, Len(returned.s))

RECURSIVE Vacuous(_)
\* a value without anything to serialize: undefined, an object whose values
\* are all vacuous ({} included), an array without defined element
Vacuous(v) ==
    \/ v = Undefined
    \/ v.t = "object" /\ \A i \in 1..Len(v.kids) : Vacuous(v.kids[i])
    \/ v.t = "array" /\ \A i \in 1..Len(v.kids) : v.kids[i] = Undefined

\* C7: appendQueryParams returns the base URL unchanged when queryParams is
\* absent or has nothing to serialize: {}, only undefined values, {filters: {}},
\* a nested object with only undefined leaves, an empty array.
C7_EmptyParamsNoOp ==
    (Returned("appendQueryParams") /\ Vacuous(invocation.queryParams))
        => returned = Str(invocation.url)

C7_Witness ==
    /\ Returned("appendQueryParams")
    /\ invocation.queryParams =
           Obj(<<"filters", "$or">>, <<Obj(<<"$or">>, <<Undefined>>), Arr(<<>>)>>)
    /\ returned = Str(invocation.url)

C7_WitnessEmptyFilters ==
    /\ Returned("appendQueryParams")
    /\ invocation.queryParams = Obj(<<"filters">>, <<Obj(<<>>, <<>>)>>)
    /\ returned = Str("/articles")

(***************************************************************************)
(* The pairs a queryParams object stands for, by position.  A leaf of a    *)
(* value is reached by a path of positions: the position of an entry in    *)
(* its object, the position of an element among the defined elements of    *)
(* its array.  With deep = FALSE every defined element of an array is a    *)
(* leaf; with deep = TRUE an element that is an object is descended into.  *)
(***************************************************************************)
Defined(q) == SelectSeq(q, IsDefined)

RECURSIVE LeafPaths(_, _)
LeafPaths(v, deep) ==
    CASE v.t = "undefined" -> {}
      [] v.t = "object" ->
            UNION {{<<i>> \o p : p \in LeafPaths(v.kids[i], deep)} : i \in 1..Len(v.kids)}
      [] v.t = "array" ->
            UNION {IF deep /\ Defined(v.kids)[i].t = "object"
                   THEN {<<i>> \o p : p \in LeafPaths(Defined(v.kids)[i], deep)}
                   ELSE {<<i>>} : i \in 1..Len(Defined(v.kids))}
      [] OTHER -> {<<>>}

RECURSIVE KeySegments(_, _)
\* the key names and array indices along the path p of v
KeySegments(v, p) ==
    IF p = <<>> THEN <<>>
    ELSE IF v.t = "object"
    THEN <<v.keys[Head(p)]>> \o KeySegments(v.kids[Head(p)], Tail(p))
    ELSE <<ToString(Head(p) - 1)>> \o KeySegments(Defined(v.kids)[Head(p)], Tail(p))

RECURSIVE LeafAt(_, _)
LeafAt(v, p) ==
    IF p = <<>> THEN v
    ELSE IF v.t = "object" THEN LeafAt(v.kids[Head(p)], Tail(p))
    ELSE LeafAt(Defined(v.kids)[Head(p)], Tail(p))

\* first[second][third]...
BracketKey(segments) ==
    Head(segments)
    \o Join([i \in 1..(Len(segments) - 1) |-> "[" \o segments[i + 1] \o "]"], "")

RECURSIVE LexBefore(_, _)
\* p comes before q in the lexicographic order of positions
LexBefore(p, q) ==
    /\ q # <<>>
    /\ \/ p = <<>>
       \/ Head(p) < Head(q)
       \/ Head(p) = Head(q) /\ LexBefore(Tail(p), Tail(q))

RECURSIVE InOrder(_)
\* the paths of the set S, first positions first
InOrder(S) ==
    IF S = {} THEN <<>>
    ELSE LET first == CHOOSE p \in S : \A q \in S \ {p} : LexBefore(p, q)
         IN  <<first>> \o InOrder(S \ {first})

\* the pairs of queryParams in depth-first order of the positions
PairsInOrder(queryParams, deep) ==
    LET paths == InOrder(LeafPaths(queryParams, deep))
    IN  [i \in 1..Len(paths) |->
            <<BracketKey(KeySegments(queryParams, paths[i])),
              String(LeafAt(queryParams, paths[i]))>>]

RECURSIVE Split(_, _)
\* the pieces of s between the occurrences of the character sep
Split(s, sep) ==
    IF \A i \in 1..Len(s) : SubSeq(s, i, i) # sep THEN <<s>>
    ELSE LET at == CHOOSE i \in 1..Len(s) :
                       /\ SubSeq(s, i, i) = sep
                       /\ \A j \in 1..(i - 1) : SubSeq(s, j, j) # sep
         IN  <<SubSeq(s, 1, at - 1)>> \o Split(SubSeq(s, at + 1, Len(s)), sep)

\* the returned URL is the base URL, '?', and one key=value per pair, encoded
\* and joined by '&', in the order of pairs; the base URL alone without pairs
ReturnedIs(pairs) ==
    IF pairs = <<>> THEN returned.s = invocation.url
    ELSE /\ StartsWith(returned.s, invocation.url \o "?")
         /\ Split(ReturnedQuery, "&") =
                [i \in 1..Len(pairs) |->
                    FormEncode(pairs[i][1]) \o "=" \o FormEncode(pairs[i][2])]

\* C8: nesting is serialized at any depth, an object at index i of an array
\* under key k as k[i][subKey]...
C8_ObjectsInArraysRecursed ==
    (Returned("appendQueryParams") /\ Truthy(invocation.queryParams))
        => ReturnedIs(PairsInOrder(invocation.queryParams, TRUE))

PercentCodes ==
    ("3A" :> ":") @@ ("5B" :> "[") @@ ("5D" :> "]") @@ ("24" :> "$") @@ ("2C" :> ",") @@
    ("25" :> "%") @@ ("26" :> "&") @@ ("2B" :> "+") @@ ("3D" :> "=")

RECURSIVE Unescape(_)
\* s with every %XX replaced by the character it stands for, and + by a space
Unescape(s) ==
    IF s = "" THEN ""
    ELSE IF Head(s) = "%" /\ Len(s) >= 3 /\ SubSeq(s, 2, 3) \in DOMAIN PercentCodes
    THEN PercentCodes[SubSeq(s, 2, 3)] \o Unescape(SubSeq(s, 4, Len(s)))
    ELSE (IF Head(s) = "+" THEN " " ELSE Head(s)) \o Unescape(Tail(s))

C19_MapperWithoutFileId ==
    (Returned("createMapper") /\ invocation.fileId = Undefined) =>
        /\ InstanceOf(invocation.error, "HTTPNotFoundError") =>
               InstanceOf(returned, "HTTPNotFoundError")
        /\ InstanceOf(invocation.error, "HTTPForbiddenError") =>
               /\ InstanceOf(returned, "FileForbiddenError")
               /\ returned.fileId = Undefined

\* headers that need no rejection: absent, or an object (no array, not null)
\* whose values are all strings
HeadersAcceptable(headers) ==
    \/ headers = Undefined
    \/ /\ headers.t = "object"
       /\ \A i \in 1..Len(headers.kids) : headers.kids[i].t = "string"

IsValidationError(error) ==
    error # Undefined /\ error.class = "StrapiValidationError"

\* C21: validateConfig throws a StrapiValidationError for a configuration
\* that is no plain object, and for a configuration whose base URL the URL
\* validator accepts but whose headers are not an object of strings; it
\* throws nothing when both the base URL and the headers are acceptable; and
\* when the base URL is rejected the error thrown is the one of the base URL
\* (its cause is the URLValidationError) whatever the headers are.
C21_ConfigValidatedBaseURLFirst ==
    Returned("validateConfig") =>
        LET config == invocation.config
            error == returned.threw
            isObject == config.t = "object"
            urlAccepted == Get(config, "baseURL") \in invocation.urlValidator
            headers == Get(config, "headers")
        IN  /\ ~isObject => IsValidationError(error)
            /\ (isObject /\ urlAccepted /\ ~HeadersAcceptable(headers))
                   => /\ IsValidationError(error)
                      /\ error.cause.class = "TypeError"
            /\ (isObject /\ urlAccepted /\ HeadersAcceptable(headers))
                   => error = Undefined
            /\ (isObject /\ ~urlAccepted)
                   => /\ IsValidationError(error)
                      /\ error.cause.class = "URLValidationError"

\* a configuration with a rejected base URL and headers that are no object
C21_Witness ==
    /\ Returned("validateConfig")
    /\ invocation.config = Obj(<<"baseURL", "headers">>, <<Str("invalid-url"), Str("h")>>)
    /\ Str("invalid-url") \notin invocation.urlValidator
    /\ IsValidationError(returned.threw)
    /\ returned.threw.cause.class = "URLValidationError"

\* the root path derived from the plugin and the resource name alone
DerivedRootPath ==
    LET prefix == IF HasPrefixOption THEN Get(_options.plugin, "prefix").s
                  ELSE IF HasPlugin THEN Get(_options.plugin, "name").s
                  ELSE ""
    IN  IF prefix # "" THEN "/" \o prefix \o "/" \o _options.resource
        ELSE "/" \o _options.resource

\* C22 as stated: for every string given as the explicit path, the empty
\* string included, the root path is that string verbatim and every request
\* is sent under it.
C22_AnyStringPathVerbatim ==
    _options.path.t = "string"
        => /\ _rootPath(_options) = _options.path.s
           /\ AllRequestsUnder(_options.path.s)

\* C22 amended: every non-empty string given as the explicit path is the
\* root path verbatim, the plugin configuration and the resource name being
\* ignored; the empty string is treated as no explicit path, and the root
\* path is the one derived from the plugin and the resource name.
C22_NonEmptyPathVerbatim ==
    /\ (_options.path.t = "string" /\ _options.path.s # "")
           => /\ _rootPath(_options) = _options.path.s
              /\ AllRequestsUnder(_options.path.s)
    /\ _options.path = Str("")
           => /\ _rootPath(_options) = DerivedRootPath
              /\ AllRequestsUnder(DerivedRootPath)

\* a request was sent by a manager of a plugin whose path option is ''
C22_Witness ==
    /\ _options.path = Str("")
    /\ HasPlugin
    /\ Len(requests) = MaxCalls
    /\ requests[1].url # ""

\* how many elements before the i-th are not undefined
Rank(q, i) == Cardinality({j \in 1..(i - 1) : q[j] # Undefined})

\* the pairs an array under key gives: its elements other than undefined, in
\* their order, numbered from 0 without gap; null gives the text 'null'
ArrayPairs(key, q) ==
    [n \in 1..Cardinality({i \in 1..Len(q) : q[i] # Undefined}) |->
        LET i == CHOOSE i \in 1..Len(q) : q[i] # Undefined /\ Rank(q, i) = n - 1
        IN  <<key \o "[" \o ToString(n - 1) \o "]",
              IF q[i] = Null THEN "null" ELSE String(q[i])>>]

\* C23: in an array, top-level or nested, the elements equal to undefined are
\* removed before the indices are assigned, so that the others are numbered
\* 0..n-1 in their order and null is written 'null' at its index; a
\* top-level or nested null scalar is written 'null'.
C23_UndefinedSkippedNullKept ==
    (Returned("appendQueryParams") /\ Truthy(invocation.queryParams)
                                   /\ Len(invocation.queryParams.keys) = 1) =>
        LET k == invocation.queryParams.keys[1]
            v == invocation.queryParams.kids[1]
            nested == v.t = "object" /\ Len(v.keys) = 1
            k2 == k \o "[" \o v.keys[1] \o "]"
        IN  /\ v.t = "array" => ReturnedIs(ArrayPairs(k, v.kids))
            /\ v = Null => ReturnedIs(<< <<k, "null">> >>)
            /\ (nested /\ v.kids[1].t = "array") => ReturnedIs(ArrayPairs(k2, v.kids[1].kids))
            /\ (nested /\ v.kids[1] = Null) => ReturnedIs(<< <<k2, "null">> >>)
            /\ v = Arr(<<Str("name:asc"), Undefined, Null>>)
                   => ReturnedQuery = FormEncode(k) \o "%5B0%5D=name%3Aasc&"
                                      \o FormEncode(k) \o "%5B1%5D=null"

C23_Witness ==
    /\ Returned("appendQueryParams")
    /\ invocation.queryParams = Obj(<<"filters">>, <<Arr(<<Str("name:asc"), Undefined, Null>>)>>)
    /\ returned.s = invocation.url \o "?filters%5B0%5D=name%3Aasc&filters%5B1%5D=null"

C23_WitnessNested ==
    /\ Returned("appendQueryParams")
    /\ invocation.queryParams =
           Obj(<<"filters">>, <<Obj(<<"$or">>, <<Arr(<<Undefined, Null, Num(1)>>)>>)>>)
    /\ returned.s = invocation.url
                    \o "?filters%5B%24or%5D%5B0%5D=null&filters%5B%24or%5D%5B1%5D=1"

\* the query string parsed: cut at every '&', each piece cut at its first
\* '=', name and value decoded
ParseQuery(query) ==
    LET pieces == Split(query, "&")
    IN  [i \in 1..Len(pieces) |->
            LET parts == Split(pieces[i], "=")
            IN  <<Unescape(parts[1]),
                  Unescape(Join(Tail(parts), "="))>>]

IsFlatScalars(q) ==
    /\ q.t = "object"
    /\ Len(q.keys) > 0
    /\ \A i \in 1..Len(q.kids) : q.kids[i].t \in {"number", "string", "boolean"}

\* C24: for a flat object of numbers, strings and booleans, parsing the
\* query string appendQueryParams produced gives back the same keys in the
\* same order, each with the value String(v); {a: 1, b: 'x'} gives back
\* a = '1' and b = 'x'.
C24_FlatRoundTrip ==
    (Returned("appendQueryParams") /\ IsFlatScalars(invocation.queryParams)) =>
        LET q == invocation.queryParams
        IN  /\ StartsWith(returned.s, invocation.url \o "?")
            /\ ParseQuery(ReturnedQuery) =
                   [i \in 1..Len(q.keys) |->
                       <<q.keys[i],
                         CASE q.kids[i].t = "number" -> ToString(q.kids[i].n)
                           [] q.kids[i].t = "string" -> q.kids[i].s
                           [] q.kids[i].t = "boolean" ->
                                  IF q.kids[i].b THEN "true" ELSE "false">>]
            /\ q = Obj(<<"a", "b">>, <<Num(1), Str("x")>>)
                   => ParseQuery(ReturnedQuery) = << <<"a", "1">>, <<"b", "x">> >>

C24_Witness ==
    /\ Returned("appendQueryParams")
    /\ invocation.queryParams = Obj(<<"a", "b">>, <<Num(1), Str("x")>>)
    /\ returned.s = invocation.url \o "?a=1&b=x"

\* a value with the separators of the query string in it
C24_WitnessSeparators ==
    /\ Returned("appendQueryParams")
    /\ invocation.queryParams = Obj(<<"p&q", "a">>, <<Str("a&b=c"), Str("x y+z%")>>)
    /\ returned.s = invocation.url \o "?p%26q=a%26b%3Dc&a=x+y%2Bz%25"

\* C25: no step of any operation, successful or failing, changes the
\* manager's resource, path or plugin options or the class of the manager,
\* and the root path resolved after the step is the one resolved before it.
C25_OptionsAndRootPathImmutable ==
    [][/\ _options'.resource = _options.resource
       /\ _options'.path = _options.path
       /\ _options'.plugin = _options.plugin
       /\ kind' = kind
       /\ _rootPath(_options') = _rootPath(_options)]_vars

\* an operation failed and another state of the same manager is reached
C25_Witness ==
    /\ \E c \in DOMAIN calls : calls[c].pc = "threw" /\ Len(RequestsOf(c)) = 1
    /\ HasPlugin
    /\ _options.path = Undefined
    /\ requests[1].url = UrlUnder(_rootPath(_options), CallOf(1))

C25_WitnessReturned ==
    /\ \E c \in DOMAIN calls : calls[c].pc = "returned"
    /\ _options.path = Str("/custom/endpoint")
    /\ requests[1].url = UrlUnder("/custom/endpoint", CallOf(1))

\* C26: the root path is resolved to a string for every resource name, path
\* and plugin options; with neither path nor plugin it is '/' followed by the
\* resource name, and the empty resource name is passed through: the root
\* path is then '/'.
C26_RootPathNeverFails ==
    Returned("_rootPath") =>
        LET o == invocation.options
        IN  /\ returned.t = "string"
            /\ (o.path = Undefined /\ o.plugin = Undefined)
                   => returned.s = "/" \o o.resource
            /\ (o.path = Undefined /\ o.plugin = Undefined /\ o.resource = "")
                   => returned.s = "/"
            /\ (o.path = Undefined /\ o.resource = "" /\ o.plugin # Undefined)
                   => returned.s \in {"/", "/" \o OptGet(o.plugin, "name").s \o "/",
                                      "/" \o OptGet(o.plugin, "prefix").s \o "/"}

C26_Witness ==
    /\ Returned("_rootPath")
    /\ invocation.options = [resource |-> "", path |-> Undefined, plugin |-> Undefined]
    /\ returned = Str("/")

Contains(s, sub) ==
    \E i \in 1..(Len(s) - Len(sub) + 1) : SubSeq(s, i, i + Len(sub) - 1) = sub

\* typeof v is 'object': an object, an array or null
TypeofObject(v) == v.t \in {"object", "array", "null"}

\* the position, from 0, of the first element of the array that is no string
FirstNonString(sort) ==
    CHOOSE i \in 0..(Len(sort.kids) - 1) :
        /\ sort.kids[i + 1].t # "string"
        /\ \A j \in 0..(i - 1) : sort.kids[j + 1].t = "string"

\* what validateFileQueryParams has to reject, with filters and sort the
\* entries of queryParams
FiltersInvalid(filters) == filters # Undefined /\ ~TypeofObject(filters)

SortInvalid(sort) ==
    /\ sort # Undefined
    /\ \/ sort.t \notin {"string", "array"}
       \/ sort.t = "array" /\ \E i \in 1..Len(sort.kids) : sort.kids[i].t # "string"

\* both versions of validateFileQueryParams throw exactly when filters is
\* defined and typeof filters is not 'object', or sort is defined and is
\* neither a string nor an array, or sort is an array with a non-string
\* element, and the error is the one of filters when both are invalid
ThrowsExactlyWhenInvalid ==
    LET q == invocation.queryParams
        error == returned.threw
        filters == OptGet(q, "filters")
        sort == OptGet(q, "sort")
    IN  /\ error # Undefined <=> (FiltersInvalid(filters) \/ SortInvalid(sort))
        /\ FiltersInvalid(filters) => Contains(error.message, "filters")
        /\ (~FiltersInvalid(filters) /\ SortInvalid(sort)) => Contains(error.message, "sort")

\* the error for a sort array names the position of its first non-string element
NamesFirstPosition ==
    LET q == invocation.queryParams
        filters == OptGet(q, "filters")
        sort == OptGet(q, "sort")
    IN  (~FiltersInvalid(filters) /\ SortInvalid(sort) /\ sort.t = "array")
            => Contains(returned.threw.message,
                        "position " \o ToString(FirstNonString(sort)) \o " ")

\* C27 as stated: validateFileQueryParams throws exactly when filters or
\* sort is invalid, filters first, and for an invalid sort array the error
\* names the position of the first non-string element.
C27_ErrorNamesPosition ==
    Returned("validateFileQueryParams") =>
        ThrowsExactlyWhenInvalid /\ NamesFirstPosition

\* C27 amended: validateFileQueryParams throws exactly when filters or sort
\* is invalid ("not an object" being typeof filters !== 'object', so that
\* null and arrays pass), filters first; for an invalid sort array the
\* version with the detailed messages names the position of the first
\* non-string element, and the version with the short messages, the one
\* the tests expect, raises 'Invalid sort parameter: array items must be
\* strings' without a position.
C27_ThrowsExactlyWhenInvalid ==
    Returned("validateFileQueryParams") =>
        /\ ThrowsExactlyWhenInvalid
        /\ invocation.version = "detailed" => NamesFirstPosition
        /\ (/\ invocation.version = "short"
            /\ ~FiltersInvalid(OptGet(invocation.queryParams, "filters"))
            /\ SortInvalid(OptGet(invocation.queryParams, "sort"))
            /\ OptGet(invocation.queryParams, "sort").t = "array")
               => returned.threw.message = "Invalid sort parameter: array items must be strings"

\* a sort array whose second and third elements are no strings, rejected by
\* the detailed version for position 1
C27_Witness ==
    /\ Returned("validateFileQueryParams")
    /\ invocation.version = "detailed"
    /\ invocation.queryParams = Obj(<<"sort">>, <<Arr(<<Str("name:asc"), Num(1), Null>>)>>)
    /\ Contains(returned.threw.message, "position 1 must be a string, received number")

\* filters and sort both invalid: the error is the one of filters
C27_WitnessBoth ==
    /\ Returned("validateFileQueryParams")
    /\ invocation.queryParams = Obj(<<"filters", "sort">>, <<Str("name:asc"), Num(1)>>)
    /\ Contains(returned.threw.message, "filters")

\* the plugin options of the same plugin name as this manager's (no plugin
\* when this one has none)
SamePluginName ==
    {p \in Plugins : OptGet(p, "name") = OptGet(_options.plugin, "name")}

\* C28: a collection manager wraps the payload in {data: ...} exactly when
\* every collection manager of the same plugin name decides to wrap,
\* whatever their resource name, explicit path and plugin prefix are; a
\* manager of the resource 'users' without plugin sends {data: payload}.
C28_WrapDependsOnPluginNameOnly ==
    kind = "collection" =>
        \A i \in 1..Len(requests) : IsWrite(i) =>
            LET data == CallOf(i).args.data
                wrapped == requests[i].body = Wrapped(data)
            IN  /\ wrapped \/ requests[i].body = Raw(data)
                /\ \A p \in SamePluginName, r \in Resources, x \in Paths :
                       wrapped <=> shouldWrapDataBodyAttribute(
                                       [resource |-> r, path |-> x, plugin |-> p])
                /\ ~HasPlugin => wrapped

\* the manager of 'users' without plugin has sent a wrapped payload
C28_Witness ==
    /\ kind = "collection"
    /\ _options.resource = "users" /\ ~HasPlugin
    /\ \E i \in 1..Len(requests) :
           /\ CallOf(i).op = "create"
           /\ requests[i].body = Str("{\"data\":{\"title\":\"t\"}}")
           /\ SamePluginName = {Undefined}

\* C29: what appendQueryParams returns is the base URL itself, or the base
\* URL, a '?' and a query string that is not empty and holds no '?' of its
\* own; this also when the base URL already contains a '?', which then gets
\* a second '?' and no '&'.
C29_BaseUrlIsPrefix ==
    Returned("appendQueryParams") =>
        LET url == invocation.url
            result == returned.s
        IN  /\ returned.t = "string"
            /\ StartsWith(result, url)
            /\ result # url =>
                   /\ SubSeq(result, Len(url) + 1, Len(url) + 1) = "?"
                   /\ Len(result) > Len(url) + 1
                   /\ ~Contains(SubSeq(result, Len(url) + 2, Len(result)), "?")
            /\ (url = "/upload/files?a" /\ invocation.queryParams = Obj(<<"a">>, <<Num(1)>>))
                   => result = "/upload/files?a?a=1"

\* a base URL with a query string of its own got a second '?'
C29_Witness ==
    /\ Returned("appendQueryParams")
    /\ invocation.url = "/upload/files?a"
    /\ invocation.queryParams = Obj(<<"a">>, <<Num(1)>>)
    /\ returned = Str("/upload/files?a?a=1")

(***************************************************************************)
(* Properties of concurrent calls of FilesManager (SpecFilesConcurrent)    *)
(***************************************************************************)
\* the calls that have created their client
Started == {c \in DOMAIN calls : calls[c].pc # "idle"}

\* C30: every call registers its interceptor on a client of its own got
\* from create(): the interceptor list of the manager's _httpClient stays
\* as it was at construction, no two calls share a client, and when the
\* request of a call fails with an HTTP not-found error the call throws a
\* FileNotFoundError with the file id of that very call, whatever the other
\* calls in flight are.
C30_InterceptorOnFreshClient ==
    /\ clients[BaseClient] = NoInterceptors
    /\ \A c \in Started :
           /\ calls[c].client # BaseClient
           /\ \A d \in Started \ {c} : calls[d].client # calls[c].client
           /\ clients[calls[c].client] = <<calls[c].args.fileId>>
    /\ \A c \in Started :
           (calls[c].pc = "threw" /\ calls[c].rejection # Undefined
                                  /\ InstanceOf(calls[c].rejection, "HTTPNotFoundError"))
               => /\ InstanceOf(calls[c].outcome, "FileNotFoundError")
                  /\ calls[c].outcome.fileId = calls[c].args.fileId

\* two calls for different file ids were in flight together, the first one
\* failed after the second had created its client, and both failed with
\* not-found
C30_Witness ==
    /\ MaxConcurrent >= 2
    /\ calls[1].pc = "threw" /\ calls[2].pc = "threw"
    /\ calls[1].args.fileId = Num(1) /\ calls[2].args.fileId = Num(999)
    /\ InstanceOf(calls[1].rejection, "HTTPNotFoundError")
    /\ InstanceOf(calls[2].rejection, "HTTPNotFoundError")
    /\ calls[1].outcome.fileId = Num(1)
    /\ calls[2].outcome.fileId = Num(999)
    /\ Len(clients) = 3

====
